---- MODULE Spec2Model ----
(***************************************************************************)
(* A model of package btree (src/btree.go, src/list.go): B-Trees after     *)
(* CLRS with minimum degree t, stored as Go values.                        *)
(*                                                                         *)
(* The heap is a sequence of node structs; a pointer is an index into it   *)
(* and Nil is the nil interface value.  A list[T] is a Go slice: a backing *)
(* array a of cap(l) cells of which the first n are the slice's elements.  *)
(* Methods with a pointer receiver update the struct in the heap; methods  *)
(* with a value receiver work on a copy of the struct, so what they write  *)
(* into the backing arrays is shared with the struct in the heap and what  *)
(* they do to the slice lengths is not.  A run-time panic (index or slice  *)
(* bound out of range, failed type assertion, nil dereference) is the      *)
(* field panic of the machine state M = [heap, panic] that every method    *)
(* takes and returns.                                                      *)
(***************************************************************************)
EXTENDS Integers, Sequences, FiniteSets, TLC

\* Keys offered to the tree are 1..MaxKey.
MaxKey == 7
\* The orders t explored are 2..MaxOrder.
MaxOrder == 3
\* Insert is offered while the tree stores fewer than MaxStored key cells.
MaxStored == 8
\* A script inserts up to MaxBuild keys.
MaxBuild == 10
\* Keys that carry a payload are 1..MaxValKey, the payloads 0..MaxPayload.
MaxValKey == 5
MaxPayload == 1
\* With payloads, Insert is offered while the tree stores fewer than MaxValStored.
MaxValStored == 6
\* The long script inserts 1..MaxDeep; Remove is then offered while the tree
\* stores more than MaxDeep - MaxCut key cells.
MaxDeep == 21
MaxCut == 2
\* The number of keys of the ascending script after which one Remove is tried.
ScenarioKeys == 16

VARIABLES
    t,       \* the minimum degree (const t, src/btree.go:10-12), fixed per run
    heap,    \* the node structs reachable from b.root
    root,    \* b.root
    failed,  \* a call has panicked; the program is gone
    abs,     \* history: the items an abstract map updated by the same calls holds
    phase    \* the workload of the run and where it stands

vars == <<t, heap, root, failed, abs, phase>>

\* An item is <<key, payload>>; the payload tells two equal-comparing values apart.
Item(k, p) == <<k, p>>

\* The zero value of T, what make() fills a fresh backing array with.
Zero == <<0, 0>>

\* The nil childNode.
Nil == 0

Compare(a, b) == a[1] - b[1]

----------------------------------------------------------------------------
(* list.go *)

\* A newList that makes the slice with length, not only capacity, capacity.
newList_filled(capacity, zero) == [a |-> [p \in 1..capacity |-> zero], n |-> capacity]

newList(capacity, zero) == [a |-> [p \in 1..capacity |-> zero], n |-> 0]

cap(l) == Len(l.a)

\* The elements of slice l.
Elems(l) == SubSeq(l.a, 1, l.n)

\* removeFrom(i, j): the run-time checks of make, (*l)[i:j], (*l)[i:], (*l)[j:].
removeFromOk(l, i, j) == 0 <= i /\ i <= j /\ j <= l.n

removeFromOut(l, i, j) == [p \in 1..(j - i) |-> l.a[i + p]]

\* copy((*l)[i:], (*l)[j:]) moves cells j..len-1 down to i; the cells from the
\* new length on keep what they held.
removeFromList(l, i, j) ==
    [a |-> [p \in 1..cap(l) |->
                IF p > i /\ p <= l.n - (j - i) THEN l.a[p + (j - i)] ELSE l.a[p]],
     n |-> l.n - (j - i)]

\* insertTo(i, items...): the run-time checks of (*l)[:newLen], (*l)[i:].
insertToOk(l, i, items) ==
    /\ l.n + Len(items) <= cap(l)
    /\ 0 <= i
    /\ i <= l.n + Len(items)

insertToList(l, i, items) ==
    LET m      == Len(items)
        newLen == m + l.n
        j      == m + i
        b      == [p \in 1..cap(l) |->
                      IF newLen > j /\ p > j /\ p <= newLen THEN l.a[p - m] ELSE l.a[p]]
    IN  [a |-> [p \in 1..cap(l) |->
                   IF p > i /\ p <= i + m /\ p <= newLen THEN items[p - i] ELSE b[p]],
         n |-> newLen]

RECURSIVE findLoop(_, _, _, _)
findLoop(l, item, low, high) ==
    IF low < high
    THEN LET between  == (low + high) \div 2
             compared == Compare(item, l.a[between + 1])
         IN  IF compared < 0 THEN findLoop(l, item, low, between)
             ELSE IF compared > 0 THEN findLoop(l, item, between + 1, high)
             ELSE [i |-> between, found |-> TRUE]
    ELSE [i |-> low, found |-> FALSE]

find(l, item) == findLoop(l, item, 0, l.n)

----------------------------------------------------------------------------
(* The machine state and the list operations on a struct in the heap *)

Panic(M) == [M EXCEPT !.panic = TRUE]

\* The machine state on entry to method op of node n with the arguments k (a
\* key, or Zero) and m (a node, or Nil): the call is appended to the record of
\* the calls made, with the heap it finds.
enter(M, op, n, k, m) ==
    [M EXCEPT !.calls =
        Append(@, [op |-> op, n |-> n, k |-> k, m |-> m, heap |-> M.heap])]

\* A method call on pointer n is possible.
Live(M, n) == ~M.panic /\ n # Nil

IsLeafType(ty) == ty \in {"rootLeaf", "childLeaf"}

\* new(struct): the pointer is the next free index.
alloc(M, node) == [m |-> [M EXCEPT !.heap = Append(@, node)], p |-> Len(M.heap) + 1]

\* l.remove(i) on field f of struct n, the slice header having length len.
\* keep = TRUE is the call through a copy of the struct (value receiver): the
\* backing array is written, the struct's own length is not.
listRemove(M, n, f, len, i, keep) ==
    LET l == [a |-> M.heap[n][f].a, n |-> len]
    IN  IF M.panic \/ ~removeFromOk(l, i, i + 1)
        THEN [m |-> Panic(M), v |-> IF f = "keys" THEN Zero ELSE Nil, len |-> len]
        ELSE LET r == removeFromList(l, i, i + 1)
             IN  [m   |-> [M EXCEPT !.heap[n][f] =
                               [a |-> r.a, n |-> IF keep THEN @.n ELSE r.n]],
                  v   |-> removeFromOut(l, i, i + 1)[1],
                  len |-> r.n]

\* l.insert(i, x), as listRemove.
listInsert(M, n, f, len, i, x, keep) ==
    LET l == [a |-> M.heap[n][f].a, n |-> len]
    IN  IF M.panic \/ ~insertToOk(l, i, <<x>>)
        THEN [m |-> Panic(M), len |-> len]
        ELSE LET r == insertToList(l, i, <<x>>)
             IN  [m   |-> [M EXCEPT !.heap[n][f] =
                               [a |-> r.a, n |-> IF keep THEN @.n ELSE r.n]],
                  len |-> r.n]

\* n.f.remove(i) and n.f.insert(i, x) through a pointer receiver.
remove_(M, n, f, i) ==
    IF M.panic THEN [m |-> M, v |-> IF f = "keys" THEN Zero ELSE Nil]
    ELSE listRemove(M, n, f, M.heap[n][f].n, i, FALSE)

insert_(M, n, f, i, x) ==
    IF M.panic THEN M ELSE listInsert(M, n, f, M.heap[n][f].n, i, x, FALSE).m

\* dst.f.splice(i, j, &src.f): l.insertTo(i, m.removeFrom(j, len(*m))...).
splice(M, dst, f, i, j, src) ==
    IF M.panic THEN M
    ELSE LET m == M.heap[src][f]
         IN  IF ~removeFromOk(m, j, m.n) THEN Panic(M)
             ELSE LET out == removeFromOut(m, j, m.n)
                      M1  == [M EXCEPT !.heap[src][f] = removeFromList(m, j, m.n)]
                      l   == M1.heap[dst][f]
                  IN  IF ~insertToOk(l, i, out) THEN Panic(M1)
                      ELSE [M1 EXCEPT !.heap[dst][f] = insertToList(l, i, out)]

\* len(n.f), n.f[i] and n.f[i] = x.
len(M, n, f) == IF M.panic THEN 0 ELSE M.heap[n][f].n

inRange(M, n, f, i) == ~M.panic /\ 0 <= i /\ i < M.heap[n][f].n

at(M, n, f, i) == M.heap[n][f].a[i + 1]

setAt(M, n, f, i, x) ==
    IF inRange(M, n, f, i) THEN [M EXCEPT !.heap[n][f].a[i + 1] = x] ELSE Panic(M)

----------------------------------------------------------------------------
(* btree.go: the four node types *)

newBaseLeafNode == [keys |-> newList(2 * t - 1, Zero)]

newBaseInternalNode ==
    [keys |-> newList(2 * t - 1, Zero), children |-> newList(2 * t, Nil)]

newRootLeafNode == [type |-> "rootLeaf"] @@ newBaseLeafNode

newChildLeafNode == [type |-> "childLeaf"] @@ newBaseLeafNode

newRootInternalNode == [type |-> "rootInternal"] @@ newBaseInternalNode

newChildInternalNode == [type |-> "childInternal"] @@ newBaseInternalNode

typeOf(M, n) == IF Live(M, n) THEN M.heap[n].type ELSE "none"

\* An isAboveMin that is true of every root-role node.
isAboveMin_rootAlways(M, n) ==
    /\ Live(M, n)
    /\ IF M.heap[n].type \in {"rootLeaf", "rootInternal"}
       THEN TRUE
       ELSE M.heap[n].keys.n > t - 1

\* isAboveMin of rootLeafNode, rootInternalNode, childLeafNode, childInternalNode.
isAboveMin(M, n) ==
    /\ Live(M, n)
    /\ IF M.heap[n].type \in {"rootLeaf", "rootInternal"}
       THEN M.heap[n].keys.n > 0
       ELSE M.heap[n].keys.n > t - 1

\* An isBelowMax that reports full one key early.
isBelowMax_early(M, n) == Live(M, n) /\ M.heap[n].keys.n < 2 * t - 2

isBelowMax(M, n) == Live(M, n) /\ M.heap[n].keys.n < 2 * t - 1

\* asChild and asRoot build a struct of the other role around the same base
\* struct: the slice headers are copied, the backing arrays shared.  The struct
\* copied from is dropped by every caller, so the copy holds the arrays alone.
rootLeafNode_asChild(M, n) == alloc(M, [M.heap[n] EXCEPT !.type = "childLeaf"])

rootInternalNode_asChild(M, n) == alloc(M, [M.heap[n] EXCEPT !.type = "childInternal"])

asChild(M, n) ==
    IF ~Live(M, n) THEN [m |-> Panic(M), p |-> Nil]
    ELSE IF M.heap[n].type = "rootLeaf" THEN rootLeafNode_asChild(M, n)
    ELSE rootInternalNode_asChild(M, n)

childLeafNode_asRoot(M, n) == alloc(M, [M.heap[n] EXCEPT !.type = "rootLeaf"])

childInternalNode_asRoot(M, n) == alloc(M, [M.heap[n] EXCEPT !.type = "rootInternal"])

asRoot(M, n) ==
    IF ~Live(M, n) THEN [m |-> Panic(M), p |-> Nil]
    ELSE IF M.heap[n].type = "childLeaf" THEN childLeafNode_asRoot(M, n)
    ELSE childInternalNode_asRoot(M, n)

----------------------------------------------------------------------------
(* search *)

RECURSIVE search(_, _, _)

\* search has a value receiver and find takes the list by value; neither
\* writes through them, so the machine state they return is the one given.
\* A leaf search that enters its node a second time.
baseLeafNode_search_twice(M, n, key) ==
    LET f == find(M.heap[n].keys, key)
        M1 == enter(M, "search", n, key, Nil)
    IN  IF f.found
        THEN [m |-> M1, outkey |-> at(M, n, "keys", f.i), found |-> TRUE,
              panic |-> FALSE]
        ELSE [m |-> M1, outkey |-> Zero, found |-> FALSE, panic |-> FALSE]

baseLeafNode_search(M, n, key) ==
    LET f == find(M.heap[n].keys, key)
    IN  IF f.found
        THEN [m |-> M, outkey |-> at(M, n, "keys", f.i), found |-> TRUE,
              panic |-> FALSE]
        ELSE [m |-> M, outkey |-> Zero, found |-> FALSE, panic |-> FALSE]

\* An internal-node search that takes the key it finds out of the list.
baseInternalNode_search_take(M, n, k) ==
    LET f == find(M.heap[n].keys, k)
    IN  IF f.found
        THEN [m |-> listRemove(M, n, "keys", len(M, n, "keys"), f.i, TRUE).m,
              outkey |-> at(M, n, "keys", f.i), found |-> TRUE, panic |-> FALSE]
        ELSE IF inRange(M, n, "children", f.i)
        THEN search(M, at(M, n, "children", f.i), k)
        ELSE [m |-> Panic(M), outkey |-> Zero, found |-> FALSE, panic |-> TRUE]

baseInternalNode_search(M, n, k) ==
    LET f == find(M.heap[n].keys, k)
    IN  IF f.found
        THEN [m |-> M, outkey |-> at(M, n, "keys", f.i), found |-> TRUE,
              panic |-> FALSE]
        ELSE IF inRange(M, n, "children", f.i)
        THEN search(M, at(M, n, "children", f.i), k)
        ELSE [m |-> Panic(M), outkey |-> Zero, found |-> FALSE, panic |-> TRUE]

search(M, n, k) ==
    IF ~Live(M, n)
    THEN [m |-> Panic(M), outkey |-> Zero, found |-> FALSE, panic |-> TRUE]
    ELSE IF IsLeafType(M.heap[n].type)
    THEN baseLeafNode_search(enter(M, "search", n, k, Nil), n, k)
    ELSE baseInternalNode_search(enter(M, "search", n, k, Nil), n, k)

----------------------------------------------------------------------------
(* split and insertBelowMax *)

\* A leaf split that moves the keys from index t+1 on, one too few.
childLeafNode_split_high(M, n) ==
    LET s  == alloc(M, newChildLeafNode)
        M1 == splice(s.m, s.p, "keys", 0, t + 1, n)
        r  == remove_(M1, n, "keys", t - 1)
    IN  [m |-> r.m, medianKey |-> r.v, sibling |-> s.p]

\* A leaf split that reads the median and leaves it in the node.
childLeafNode_split_keepMedian(M, n) ==
    LET s  == alloc(M, newChildLeafNode)
        M1 == splice(s.m, s.p, "keys", 0, t, n)
    IN  [m |-> M1, medianKey |-> at(M1, n, "keys", t - 1), sibling |-> s.p]

childLeafNode_split(M, n) ==
    LET s  == alloc(M, newChildLeafNode)
        M1 == splice(s.m, s.p, "keys", 0, t, n)
        r  == remove_(M1, n, "keys", t - 1)
    IN  [m |-> r.m, medianKey |-> r.v, sibling |-> s.p]

\* A split of an internal node that builds the sibling as the leaf's split does.
childInternalNode_split_asLeaf(M, n) == childLeafNode_split(M, n)

childInternalNode_split(M, n) ==
    LET s  == alloc(M, newChildInternalNode)
        M1 == splice(s.m, s.p, "children", 0, t, n)
        M2 == splice(M1, s.p, "keys", 0, t, n)
        r  == remove_(M2, n, "keys", t - 1)
    IN  [m |-> r.m, medianKey |-> r.v, sibling |-> s.p]

split(M, n) ==
    IF ~Live(M, n) THEN [m |-> Panic(M), medianKey |-> Zero, sibling |-> Nil]
    ELSE IF M.heap[n].type = "childLeaf"
    THEN childLeafNode_split(enter(M, "split", n, Zero, Nil), n)
    ELSE childInternalNode_split(enter(M, "split", n, Zero, Nil), n)

RECURSIVE insertBelowMax(_, _, _)

baseLeafNode_insertBelowMax(M, n, k) ==
    LET f == find(M.heap[n].keys, k)
    IN  IF f.found THEN setAt(M, n, "keys", f.i, k)
        ELSE insert_(M, n, "keys", f.i, k)

baseInternalNode_insertBelowMax(M, n, k) ==
    LET f == find(M.heap[n].keys, k)
        i == f.i
    IN  IF f.found THEN setAt(M, n, "keys", i, k)
        ELSE IF ~inRange(M, n, "children", i) THEN Panic(M)
        ELSE LET child == at(M, n, "children", i)
             IN  IF ~isBelowMax(M, child)
                 THEN LET s  == split(M, child)
                          M1 == insert_(s.m, n, "keys", i, s.medianKey)
                          M2 == insert_(M1, n, "children", i + 1, s.sibling)
                      IN  IF ~inRange(M2, n, "keys", i) THEN Panic(M2)
                          ELSE IF Compare(k, at(M2, n, "keys", i)) > 0
                          THEN insertBelowMax(M2, s.sibling, k)
                          ELSE insertBelowMax(M2, child, k)
                 ELSE insertBelowMax(M, child, k)

insertBelowMax(M, n, k) ==
    IF ~Live(M, n) THEN Panic(M)
    ELSE IF IsLeafType(M.heap[n].type)
    THEN baseLeafNode_insertBelowMax(enter(M, "insertBelowMax", n, k, Nil), n, k)
    ELSE baseInternalNode_insertBelowMax(enter(M, "insertBelowMax", n, k, Nil), n, k)

\* The head of BTree.Insert: a root that is not below its maximum is split
\* under a new internal root.  The machine state and b.root before the descent.
BTree_Insert_grow(M, r) ==
    IF ~isBelowMax(M, r)
    THEN LET c   == asChild(M, r)
             nr  == alloc(c.m, newRootInternalNode)
             s   == split(nr.m, c.p)
             M1  == insert_(s.m, nr.p, "keys", 0, s.medianKey)
             M2  == insert_(M1, nr.p, "children", 0, c.p)
             M3  == insert_(M2, nr.p, "children", 1, s.sibling)
         IN  [m |-> M3, root |-> nr.p]
    ELSE [m |-> M, root |-> r]

\* The tail of BTree.Insert: b.root.insertBelowMax(key).
BTree_Insert_descend(g, key) ==
    [m |-> insertBelowMax(g.m, g.root, key), root |-> g.root]

\* BTree.Insert: the machine state and b.root after the call.
BTree_Insert(M, r, key) == BTree_Insert_descend(BTree_Insert_grow(M, r), key)

----------------------------------------------------------------------------
(* merge, shuffleLeft, shuffleRight *)

\* sibling := m.(*childLeafNode[T]) and m.(*childInternalNode[T]).
assertType(M, m, ty) == Live(M, m) /\ M.heap[m].type = ty

\* A leaf merge that appends the sibling's keys and leaves the median out.
childLeafNode_merge_noMedian(M, n, medianKey, m) ==
    IF ~assertType(M, m, "childLeaf") THEN Panic(M)
    ELSE splice(M, n, "keys", len(M, n, "keys"), 0, m)

childLeafNode_merge(M, n, medianKey, m) ==
    IF ~assertType(M, m, "childLeaf") THEN Panic(M)
    ELSE LET M1 == insert_(M, n, "keys", len(M, n, "keys"), medianKey)
         IN  splice(M1, n, "keys", len(M1, n, "keys"), 0, m)

childInternalNode_merge(M, n, medianKey, m) ==
    IF ~assertType(M, m, "childInternal") THEN Panic(M)
    ELSE LET M1 == insert_(M, n, "keys", len(M, n, "keys"), medianKey)
             M2 == splice(M1, n, "keys", len(M1, n, "keys"), 0, m)
         IN  splice(M2, n, "children", len(M2, n, "children"), 0, m)

merge(M, n, medianKey, m) ==
    IF ~Live(M, n) THEN Panic(M)
    ELSE IF M.heap[n].type = "childLeaf"
    THEN childLeafNode_merge(enter(M, "merge", n, medianKey, m), n, medianKey, m)
    ELSE childInternalNode_merge(enter(M, "merge", n, medianKey, m), n, medianKey, m)

childLeafNode_shuffleLeft(M, n, stolenKey, m) ==
    IF ~assertType(M, m, "childLeaf") THEN [m |-> Panic(M), v |-> Zero]
    ELSE LET M1 == insert_(M, n, "keys", len(M, n, "keys"), stolenKey)
         IN  remove_(M1, m, "keys", 0)

childLeafNode_shuffleRight(M, n, stolenKey, m) ==
    IF ~assertType(M, m, "childLeaf") THEN [m |-> Panic(M), v |-> Zero]
    ELSE LET M1 == insert_(M, n, "keys", 0, stolenKey)
         IN  remove_(M1, m, "keys", len(M1, m, "keys") - 1)

childInternalNode_shuffleLeft(M, n, stolenKey, m) ==
    IF ~assertType(M, m, "childInternal") THEN [m |-> Panic(M), v |-> Zero]
    ELSE LET M1 == insert_(M, n, "keys", len(M, n, "keys"), stolenKey)
             i  == len(M1, n, "children")
             c  == remove_(M1, m, "children", 0)
             M2 == insert_(c.m, n, "children", i, c.v)
         IN  remove_(M2, m, "keys", 0)

childInternalNode_shuffleRight(M, n, stolenKey, m) ==
    IF ~assertType(M, m, "childInternal") THEN [m |-> Panic(M), v |-> Zero]
    ELSE LET M1 == insert_(M, n, "keys", 0, stolenKey)
             c  == remove_(M1, m, "children", len(M1, m, "keys"))
             M2 == insert_(c.m, n, "children", 0, c.v)
         IN  remove_(M2, m, "keys", len(M2, m, "keys") - 1)

shuffleLeft(M, n, stolenKey, m) ==
    IF ~Live(M, n) THEN [m |-> Panic(M), v |-> Zero]
    ELSE IF M.heap[n].type = "childLeaf"
    THEN childLeafNode_shuffleLeft(enter(M, "shuffleLeft", n, stolenKey, m), n, stolenKey, m)
    ELSE childInternalNode_shuffleLeft(enter(M, "shuffleLeft", n, stolenKey, m), n, stolenKey, m)

shuffleRight(M, n, stolenKey, m) ==
    IF ~Live(M, n) THEN [m |-> Panic(M), v |-> Zero]
    ELSE IF M.heap[n].type = "childLeaf"
    THEN childLeafNode_shuffleRight(enter(M, "shuffleRight", n, stolenKey, m), n, stolenKey, m)
    ELSE childInternalNode_shuffleRight(enter(M, "shuffleRight", n, stolenKey, m), n, stolenKey, m)

----------------------------------------------------------------------------
(* deletePred and deleteSucc *)

RECURSIVE deletePred(_, _)
RECURSIVE deleteSucc(_, _)

childLeafNode_deletePred(M, n) == remove_(M, n, "keys", len(M, n, "keys") - 1)

childLeafNode_deleteSucc(M, n) == remove_(M, n, "keys", 0)

\* The receiver is a copy of the struct (value receiver): lenK and lenC are the
\* lengths of the copy's slices.
childInternalNode_deletePred(M, n) ==
    LET lenK == len(M, n, "keys")
        lenC == len(M, n, "children")
        i    == 0
    IN  IF ~inRange(M, n, "children", i) THEN [m |-> Panic(M), v |-> Zero]
        ELSE LET child == at(M, n, "children", i)
             IN  IF isAboveMin(M, child) THEN deletePred(M, child)
                 ELSE IF ~inRange(M, n, "children", i + 1)
                 THEN [m |-> Panic(M), v |-> Zero]
                 ELSE LET right == at(M, n, "children", i + 1)
                      IN  IF isAboveMin(M, right)
                          THEN LET key == listRemove(M, n, "keys", lenK, i + 1, TRUE)
                                   s   == shuffleLeft(key.m, child, key.v, right)
                                   M1  == IF s.m.panic THEN s.m
                                          ELSE listInsert(s.m, n, "keys", key.len,
                                                          i + 1, s.v, TRUE).m
                               IN  deletePred(M1, child)
                          ELSE LET c  == listRemove(M, n, "children", lenC, i + 1, TRUE)
                                   k  == IF c.m.panic THEN [m |-> c.m, v |-> Zero]
                                         ELSE listRemove(c.m, n, "keys", lenK, i, TRUE)
                                   M1 == merge(k.m, child, k.v, right)
                               IN  deletePred(M1, child)

childInternalNode_deleteSucc(M, n) ==
    LET lenK == len(M, n, "keys")
        i    == lenK
    IN  IF ~inRange(M, n, "children", i) THEN [m |-> Panic(M), v |-> Zero]
        ELSE LET child == at(M, n, "children", i)
             IN  IF isAboveMin(M, child) THEN deleteSucc(M, child)
                 ELSE IF ~inRange(M, n, "children", i - 1)
                 THEN [m |-> Panic(M), v |-> Zero]
                 ELSE LET left == at(M, n, "children", i - 1)
                      IN  IF isAboveMin(M, left)
                          THEN LET key == listRemove(M, n, "keys", lenK, i - 1, TRUE)
                                   s   == shuffleRight(key.m, child, key.v, left)
                                   M1  == IF s.m.panic THEN s.m
                                          ELSE listInsert(s.m, n, "keys", key.len,
                                                          i - 1, s.v, TRUE).m
                               IN  deleteSucc(M1, child)
                          ELSE LET k  == listRemove(M, n, "keys", lenK, i - 1, TRUE)
                                   M1 == merge(k.m, left, k.v, child)
                               IN  deleteSucc(M1, left)

deletePred(M, n) ==
    IF ~Live(M, n) THEN [m |-> Panic(M), v |-> Zero]
    ELSE IF M.heap[n].type = "childLeaf"
    THEN childLeafNode_deletePred(enter(M, "deletePred", n, Zero, Nil), n)
    ELSE childInternalNode_deletePred(enter(M, "deletePred", n, Zero, Nil), n)

deleteSucc(M, n) ==
    IF ~Live(M, n) THEN [m |-> Panic(M), v |-> Zero]
    ELSE IF M.heap[n].type = "childLeaf"
    THEN childLeafNode_deleteSucc(enter(M, "deleteSucc", n, Zero, Nil), n)
    ELSE childInternalNode_deleteSucc(enter(M, "deleteSucc", n, Zero, Nil), n)

----------------------------------------------------------------------------
(* remove, shrink *)

RECURSIVE remove(_, _, _)

\* A leaf remove that deletes at the index find returns, match or not.
baseLeafNode_remove_unchecked(M, n, k) ==
    remove_(M, n, "keys", find(M.heap[n].keys, k).i).m

baseLeafNode_remove(M, n, k) ==
    LET f == find(M.heap[n].keys, k)
    IN  IF f.found THEN remove_(M, n, "keys", f.i).m ELSE M

\* A remove that tries the right sibling for a borrow before the left.
baseInternalNode_remove_rightFirst(M, n, k) ==
    LET f    == find(M.heap[n].keys, k)
        i    == f.i
        c(j) == at(M, n, "children", j)
    IN  IF ~inRange(M, n, "children", i) THEN Panic(M)
        ELSE LET child == c(i)
        IN  IF f.found
            THEN IF isAboveMin(M, child)
                 THEN LET d == deletePred(M, child)
                      IN  setAt(d.m, n, "keys", i, d.v)
                 ELSE IF ~inRange(M, n, "children", i + 1) THEN Panic(M)
                 ELSE IF isAboveMin(M, c(i + 1))
                 THEN LET d == deleteSucc(M, c(i + 1))
                      IN  setAt(d.m, n, "keys", i, d.v)
                 ELSE LET r  == remove_(M, n, "keys", i)
                          M1 == merge(r.m, child, r.v, c(i + 1))
                          M2 == remove_(M1, n, "children", i + 1).m
                      IN  remove(M2, child, k)
            ELSE IF isAboveMin(M, child) THEN remove(M, child, k)
            ELSE IF i < len(M, n, "keys") /\ ~inRange(M, n, "children", i + 1)
            THEN Panic(M)
            ELSE IF i < len(M, n, "keys") /\ isAboveMin(M, c(i + 1))
            THEN LET r  == remove_(M, n, "keys", i)
                     s  == shuffleLeft(r.m, child, r.v, c(i + 1))
                     M1 == insert_(s.m, n, "keys", i, s.v)
                 IN  remove(M1, child, k)
            ELSE IF i > 0 /\ isAboveMin(M, c(i - 1))
            THEN LET r  == remove_(M, n, "keys", i - 1)
                     s  == shuffleRight(r.m, child, r.v, c(i - 1))
                     M1 == insert_(s.m, n, "keys", i - 1, s.v)
                 IN  remove(M1, child, k)
            ELSE IF i > 0
            THEN LET r  == remove_(M, n, "keys", i - 1)
                     M1 == merge(r.m, c(i - 1), r.v, child)
                     M2 == remove_(M1, n, "children", i).m
                 IN  IF ~inRange(M2, n, "children", i - 1) THEN Panic(M2)
                     ELSE remove(M2, at(M2, n, "children", i - 1), k)
            ELSE IF i < len(M, n, "keys")
            THEN LET r  == remove_(M, n, "keys", i)
                     M1 == merge(r.m, child, r.v, c(i + 1))
                     M2 == remove_(M1, n, "children", i + 1).m
                 IN  remove(M2, child, k)
            ELSE remove(M, child, k)

baseInternalNode_remove(M, n, k) ==
    LET f    == find(M.heap[n].keys, k)
        i    == f.i
        c(j) == at(M, n, "children", j)
    IN  IF ~inRange(M, n, "children", i) THEN Panic(M)
        ELSE LET child == c(i)
        IN  IF f.found
            THEN IF isAboveMin(M, child)
                 THEN LET d == deletePred(M, child)
                      IN  setAt(d.m, n, "keys", i, d.v)
                 ELSE IF ~inRange(M, n, "children", i + 1) THEN Panic(M)
                 ELSE IF isAboveMin(M, c(i + 1))
                 THEN LET d == deleteSucc(M, c(i + 1))
                      IN  setAt(d.m, n, "keys", i, d.v)
                 ELSE LET r  == remove_(M, n, "keys", i)
                          M1 == merge(r.m, child, r.v, c(i + 1))
                          M2 == remove_(M1, n, "children", i + 1).m
                      IN  remove(M2, child, k)
            ELSE IF isAboveMin(M, child) THEN remove(M, child, k)
            ELSE IF i > 0 /\ isAboveMin(M, c(i - 1))
            THEN LET r  == remove_(M, n, "keys", i - 1)
                     s  == shuffleRight(r.m, child, r.v, c(i - 1))
                     M1 == insert_(s.m, n, "keys", i - 1, s.v)
                 IN  remove(M1, child, k)
            ELSE IF i < len(M, n, "keys") /\ ~inRange(M, n, "children", i + 1)
            THEN Panic(M)
            ELSE IF i < len(M, n, "keys") /\ isAboveMin(M, c(i + 1))
            THEN LET r  == remove_(M, n, "keys", i)
                     s  == shuffleLeft(r.m, child, r.v, c(i + 1))
                     M1 == insert_(s.m, n, "keys", i, s.v)
                 IN  remove(M1, child, k)
            ELSE IF i > 0
            THEN LET r  == remove_(M, n, "keys", i - 1)
                     M1 == merge(r.m, c(i - 1), r.v, child)
                     M2 == remove_(M1, n, "children", i).m
                 IN  IF ~inRange(M2, n, "children", i - 1) THEN Panic(M2)
                     ELSE remove(M2, at(M2, n, "children", i - 1), k)
            ELSE IF i < len(M, n, "keys")
            THEN LET r  == remove_(M, n, "keys", i)
                     M1 == merge(r.m, child, r.v, c(i + 1))
                     M2 == remove_(M1, n, "children", i + 1).m
                 IN  remove(M2, child, k)
            ELSE remove(M, child, k)

remove(M, n, k) ==
    IF ~Live(M, n) THEN Panic(M)
    ELSE IF IsLeafType(M.heap[n].type)
    THEN baseLeafNode_remove(enter(M, "remove", n, k, Nil), n, k)
    ELSE baseInternalNode_remove(enter(M, "remove", n, k, Nil), n, k)

\* return &n: a copy of the root struct.
rootLeafNode_shrink(M, n) == alloc(M, M.heap[n])

\* A shrink of the internal root that keeps the root, as the leaf root's does.
rootInternalNode_shrink_keep(M, n) == rootLeafNode_shrink(M, n)

rootInternalNode_shrink(M, n) ==
    IF ~inRange(M, n, "children", 0) THEN [m |-> Panic(M), p |-> Nil]
    ELSE asRoot(M, at(M, n, "children", 0))

shrink(M, n) ==
    IF ~Live(M, n) THEN [m |-> Panic(M), p |-> Nil]
    ELSE IF M.heap[n].type = "rootLeaf" THEN rootLeafNode_shrink(M, n)
    ELSE rootInternalNode_shrink(M, n)

\* The tail of BTree.Remove: a root that is no longer above its minimum is
\* replaced by what shrink returns.  M1 is the machine after b.root.remove.
BTree_Remove_shrink(M1, r) ==
    IF M1.panic THEN [m |-> M1, root |-> r]
    ELSE IF ~isAboveMin(M1, r)
    THEN LET s == shrink(M1, r) IN [m |-> s.m, root |-> s.p]
    ELSE [m |-> M1, root |-> r]

\* BTree.Remove: the machine state and b.root after the call.
BTree_Remove(M, r, key) == BTree_Remove_shrink(remove(M, r, key), r)

\* BTree.Search.
BTree_Search(M, r, key) == search(M, r, key)

----------------------------------------------------------------------------
(* The structs b.root reaches.  A struct nothing reaches is never read again *)
(* and neither is an array cell at or past its slice's length: every         *)
(* insertTo overwrites the cells it grows the slice by.  After each call     *)
(* the reachable structs are renumbered in first-visit order from b.root,    *)
(* and the cells past the lengths hold the zero value.                       *)

Children(h, n) == IF IsLeafType(h[n].type) THEN <<>> ELSE Elems(h[n].children)

Range(s) == {s[p] : p \in 1..Len(s)}

RECURSIVE reach(_, _, _)
reach(h, todo, seen) ==
    IF todo = <<>> THEN seen
    ELSE LET n == Head(todo)
         IN  IF n = Nil \/ n \in Range(seen) THEN reach(h, Tail(todo), seen)
             ELSE reach(h, Children(h, n) \o Tail(todo), Append(seen, n))

gc(h, r) ==
    LET order  == reach(h, <<r>>, <<>>)
        pos(n) == IF n = Nil THEN Nil ELSE CHOOSE p \in 1..Len(order) : order[p] = n
        keysOf(l) == [a |-> [p \in 1..cap(l) |-> IF p <= l.n THEN l.a[p] ELSE Zero],
                      n |-> l.n]
        kidsOf(l) == [a |-> [p \in 1..cap(l) |-> IF p <= l.n THEN pos(l.a[p]) ELSE Nil],
                      n |-> l.n]
        node(n) == IF IsLeafType(h[n].type)
                   THEN [type |-> h[n].type, keys |-> keysOf(h[n].keys)]
                   ELSE [type |-> h[n].type, keys |-> keysOf(h[n].keys),
                         children |-> kidsOf(h[n].children)]
    IN  [heap |-> [p \in 1..Len(order) |-> node(order[p])], root |-> pos(r)]

\* The key cells the tree stores.
RECURSIVE sumKeys(_, _)
sumKeys(h, p) == IF p = 0 THEN 0 ELSE h[p].keys.n + sumKeys(h, p - 1)

Stored == sumKeys(heap, Len(heap))

----------------------------------------------------------------------------
(* The program: NewBTree, then calls of Insert, Remove and Search.         *)
(*                                                                         *)
(* phase is the workload of the run.  "free": any calls, with keys of      *)
(* 1..MaxKey, Insert while the tree stores fewer than MaxStored key cells. *)
(* "fill": Insert of the keys of a script in order until the first Remove, *)
(* from then on "drain": Remove and Search only, with keys of 1..MaxBuild. *)
(* The other workloads are described where their actions are defined.     *)

Asc == [i \in 1..MaxBuild |-> i]

Desc == [i \in 1..MaxBuild |-> MaxBuild + 1 - i]

Scripts == {Asc, Desc}

AscDeep == [i \in 1..MaxDeep |-> i]

Deep == [mode |-> "deep", rest |-> AscDeep]

Free == [mode |-> "free", rest |-> <<>>]

Set == [mode |-> "set", rest |-> <<>>]

Grow == [mode |-> "grow", rest |-> <<>>]

Val == [mode |-> "val", rest |-> <<>>]

Drain == [mode |-> "drain", rest |-> <<>>]

Keys ==
    1..(IF phase.mode \in {"free", "set", "grow"} THEN MaxKey
        ELSE IF phase.mode = "val" THEN MaxValKey
        ELSE IF phase.mode \in {"deep", "cut"} THEN MaxDeep
        ELSE MaxBuild)

\* What a key carries besides what Compare reads.
Payloads == IF phase.mode = "val" THEN 0..MaxPayload ELSE {0}

Items == {Item(k, p) : k \in Keys, p \in Payloads}

Machine == [heap |-> heap, panic |-> FALSE, calls |-> <<>>]

\* NewBTree
NewBTree ==
    /\ t \in 2..MaxOrder
    /\ heap = <<newRootLeafNode>>
    /\ root = 1
    /\ failed = FALSE

\* A call returns with machine state r.m and b.root = r.root, or panics.
Returns(r) ==
    IF r.m.panic
    THEN /\ failed' = TRUE
         /\ UNCHANGED <<t, heap, root>>
    ELSE LET g == gc(r.m.heap, r.root)
         IN  /\ heap' = g.heap
             /\ root' = g.root
             /\ UNCHANGED <<t, failed>>

InsertCall(x) == ~failed /\ Returns(BTree_Insert(Machine, root, x))

RemoveCall(x) == ~failed /\ Returns(BTree_Remove(Machine, root, x))

SearchCall(x) ==
    /\ ~failed
    /\ Returns([m |-> BTree_Search(Machine, root, x).m, root |-> root])

Init ==
    /\ NewBTree
    /\ abs = {}
    /\ phase \in {Free} \cup {[mode |-> "fill", rest |-> s] : s \in Scripts}

Insert(x) ==
    /\ phase.mode = "free"
    /\ Stored < MaxStored
    /\ InsertCall(x)
    /\ UNCHANGED <<abs, phase>>

FillCall ==
    /\ phase.mode \in {"fill", "deep"}
    /\ phase.rest # <<>>
    /\ InsertCall(Item(Head(phase.rest), 0))
    /\ phase' = [phase EXCEPT !.rest = Tail(@)]

Fill == FillCall /\ UNCHANGED abs

Remove(x) ==
    /\ phase.mode # "deep"
    /\ RemoveCall(x)
    /\ phase' = IF phase.mode = "free" THEN phase ELSE Drain
    /\ UNCHANGED abs

Search(x) == SearchCall(x) /\ UNCHANGED <<abs, phase>>

Next ==
    \/ \E x \in Items : Insert(x)
    \/ Fill
    \/ \E x \in Items : Remove(x)
    \/ \E x \in Items : Search(x)

Spec == Init /\ [][Next]_vars

----------------------------------------------------------------------------
(* The same calls beside the abstract map they should implement: abs holds *)
(* for every key inserted and not removed since the value last inserted    *)
(* for it.  "set": any calls with keys of 1..MaxKey.  "val": any calls     *)
(* with keys of 1..MaxValKey carrying a payload.  "grow": Insert only      *)
(* until the first Remove, from then on "drain": Remove of the keys still  *)
(* in abs, each once.                                                      *)

put(s, x) == {y \in s : Compare(y, x) # 0} \cup {x}

drop(s, x) == {y \in s : Compare(y, x) # 0}

HistInit ==
    /\ NewBTree
    /\ abs = {}
    /\ phase \in {Set, Grow}

ValInit ==
    /\ NewBTree
    /\ abs = {}
    /\ phase = Val

InsertH(x) ==
    /\ phase.mode \in {"set", "grow", "val"}
    /\ Stored < (IF phase.mode = "val" THEN MaxValStored ELSE MaxStored)
    /\ InsertCall(x)
    /\ abs' = put(abs, x)
    /\ UNCHANGED phase

RemoveH(x) ==
    /\ phase.mode \in {"grow", "drain"} => x \in abs
    /\ RemoveCall(x)
    /\ abs' = drop(abs, x)
    /\ phase' = IF phase.mode \in {"grow", "drain"} THEN Drain ELSE phase

NextH ==
    \/ \E x \in Items : InsertH(x)
    \/ \E x \in Items : RemoveH(x)

SpecHist == HistInit /\ [][NextH]_vars

SpecVal == ValInit /\ [][NextH]_vars

----------------------------------------------------------------------------
(* A tree of four levels: the long script in full, then a few calls of     *)
(* Remove and any calls of Search.                                         *)

DeepInit ==
    /\ NewBTree
    /\ abs = {}
    /\ phase = Deep

RemoveDeep(x) ==
    /\ phase.mode = "deep"
    /\ phase.rest = <<>>
    /\ Stored > MaxDeep - MaxCut
    /\ RemoveCall(x)
    /\ UNCHANGED <<abs, phase>>

\* One Remove after the first ScenarioKeys keys of the script; the run then
\* only searches. phase.rest keeps the key that was removed.
RemoveCut(x) ==
    /\ phase.mode = "deep"
    /\ Len(phase.rest) = MaxDeep - ScenarioKeys
    /\ RemoveCall(x)
    /\ phase' = [mode |-> "cut", rest |-> <<x[1]>>]
    /\ UNCHANGED abs

NextDeep ==
    \/ Fill
    \/ \E x \in Items : RemoveDeep(x)
    \/ \E x \in Items : RemoveCut(x)
    \/ \E x \in Items : Search(x)

SpecDeep == DeepInit /\ [][NextDeep]_vars

----------------------------------------------------------------------------
(* What a state shows *)

IsLeaf(n) == IsLeafType(heap[n].type)

keyCount(n) == heap[n].keys.n

childCount(n) == IF IsLeaf(n) THEN 0 ELSE heap[n].children.n

\* The in-order traversal of the subtree at n: child 0, key 0, child 1, key 1,
\* ..., the last child.
RECURSIVE InOrder(_)
RECURSIVE InOrderFrom(_, _)
InOrderFrom(n, i) ==
    IF i >= keyCount(n) /\ i >= childCount(n) THEN <<>>
    ELSE (IF i < childCount(n) THEN InOrder(heap[n].children.a[i + 1]) ELSE <<>>)
         \o (IF i < keyCount(n) THEN <<heap[n].keys.a[i + 1]>> ELSE <<>>)
         \o InOrderFrom(n, i + 1)

InOrder(n) == IF n = Nil THEN <<>> ELSE InOrderFrom(n, 0)

StrictlyIncreasing(s) == \A p \in 1..(Len(s) - 1) : Compare(s[p], s[p + 1]) < 0

Sorted == StrictlyIncreasing(InOrder(root))

\* The keys stored in the tree, and the keys Search finds.
StoredKeys ==
    UNION {{heap[n].keys.a[p][1] : p \in 1..keyCount(n)} : n \in 1..Len(heap)}

Members == {k \in Keys : BTree_Search(Machine, root, Item(k, 0)).found}

\* The depths at which the subtree at n has leaves.
RECURSIVE LeafDepths(_)
LeafDepths(n) ==
    IF n = Nil THEN {}
    ELSE IF IsLeaf(n) THEN {0}
    ELSE UNION {{d + 1 : d \in LeafDepths(heap[n].children.a[p])} :
                  p \in 1..childCount(n)}

\* The number of levels below the root on the leftmost path.
RECURSIVE Height(_)
Height(n) ==
    IF n = Nil \/ IsLeaf(n) \/ childCount(n) = 0 THEN 0
    ELSE 1 + Height(heap[n].children.a[1])

\* The height of the tree and the depths of its leaves.
TreeHeight == Height(root)

\* The root as b.root.remove leaves it, before BTree.Remove looks at it, is
\* internal and holds no key.
RootEmptied(M1) ==
    /\ ~M1.panic
    /\ ~IsLeafType(M1.heap[root].type)
    /\ M1.heap[root].keys.n = 0

----------------------------------------------------------------------------
(* The claims *)

\* C1 (membership correctness): after any sequence of Insert and Remove calls
\* Search(k) reports found exactly for the keys the abstract set holds.
MembershipCorrectness == ~failed => Members = {x[1] : x \in abs}

\* C2 (sortedness): in every reachable state the in-order traversal of the
\* tree is strictly increasing.
Sortedness == ~failed => Sorted

\* C3 (balance): in every reachable state every leaf is at the same depth
\* from the root.
Balance == Cardinality(LeafDepths(root)) <= 1

\* C3 witness: a tree of three levels that a Remove has worked on, with
\* all its leaves two levels below the root.
BalanceWitness ==
    /\ ~failed
    /\ phase.mode = "drain"
    /\ TreeHeight = 2
    /\ LeafDepths(root) = {2}

\* C4 (occupancy bounds): between calls every node holds at most 2t-1 keys,
\* every node but the root at least t-1, and every internal node has one
\* child more than it has keys.
OccupancyBounds ==
    ~failed =>
        \A n \in 1..Len(heap) :
            /\ keyCount(n) <= 2 * t - 1
            /\ n # root => keyCount(n) >= t - 1
            /\ ~IsLeaf(n) => childCount(n) = keyCount(n) + 1

\* C5 (overwrite semantics): Insert of an item whose key is already stored
\* leaves the number of stored keys unchanged.
OverwriteKeepsCount ==
    [][\A x \in Items :
          (x[1] \in StoredKeys /\ InsertCall(x) /\ ~failed') => Stored' = Stored]_vars

\* C6 (latest value): Search of a key returns the value last inserted for it,
\* for every key inserted and not removed since.
LatestValueReturned ==
    ~failed =>
        \A x \in abs :
            /\ BTree_Search(Machine, root, x).found
            /\ BTree_Search(Machine, root, x).outkey = x

\* C7 (remove of an absent key): Remove of a key no stored key equals leaves
\* the set of stored keys unchanged and a strictly increasing in-order
\* traversal strictly increasing.
RemoveAbsentIsFrame ==
    [][\A x \in Items :
          (x[1] \notin StoredKeys /\ RemoveCall(x) /\ ~failed') =>
              (StoredKeys' = StoredKeys /\ (Sorted => Sorted'))]_vars

\* C7 witness: a sorted tree with an internal root from which Remove of an
\* absent key returns with another node layout (a borrow, a merge or a
\* root shrink on the way down).
RemoveAbsentWitness ==
    /\ ~failed
    /\ Sorted
    /\ ~IsLeaf(root)
    /\ \E x \in Items :
          /\ x[1] \notin StoredKeys
          /\ ~BTree_Remove(Machine, root, x).m.panic
          /\ gc(BTree_Remove(Machine, root, x).m.heap,
                BTree_Remove(Machine, root, x).root).heap # heap

\* C8 (round trip): once every key inserted has been removed again, the
\* tree stores no key and its root is a leaf.
RoundTripEmpties ==
    (~failed /\ phase.mode = "drain" /\ abs = {}) =>
        (IsLeaf(root) /\ keyCount(root) = 0 /\ Stored = 0)

\* C9 (no runtime failure): no sequence of Search, Insert and Remove calls
\* reaches a step that panics.
NoRuntimeFailure == ~failed

\* C10 (root shrink): a Remove lowers the height by one exactly when the
\* recursive removal leaves an internal root without keys, which then has a
\* single child; otherwise the height is unchanged; the root is never left
\* internal without keys, and a leaf root stays a leaf root.
RootShrink ==
    [][\A x \in Items :
          (RemoveCall(x) /\ ~failed') =>
              /\ IF RootEmptied(remove(Machine, root, x))
                 THEN /\ TreeHeight' = TreeHeight - 1
                      /\ remove(Machine, root, x).heap[root].children.n = 1
                 ELSE TreeHeight' = TreeHeight
              /\ ~(~IsLeaf(root)' /\ keyCount(root)' = 0)
              /\ IsLeaf(root) => IsLeaf(root)']_vars

\* C10 witness: a tree of three levels from which a Remove empties the
\* internal root, so that the call ends in a shrink.
RootShrinkWitness ==
    /\ ~failed
    /\ TreeHeight = 2
    /\ \E x \in Items : RootEmptied(remove(Machine, root, x))

\* The keys of node n of machine state M, in order.
keysOfNode(M, n) == [p \in 1..M.heap[n].keys.n |-> M.heap[n].keys.a[p]]

\* The tree right after BTree.Insert has split a full root, before the
\* descent: g is what BTree_Insert_grow returns from the current state.
GrownRoot(g) ==
    LET nr == g.m.heap[g.root]
        l  == g.m.heap[nr.children.a[1]]
        rt == g.m.heap[nr.children.a[2]]
        old == keysOfNode(Machine, root)
    IN  /\ ~g.m.panic
        /\ nr.type = "rootInternal"
        /\ nr.keys.n = 1
        /\ nr.keys.a[1] = old[t]
        /\ nr.children.n = 2
        /\ keysOfNode(g.m, nr.children.a[1]) = SubSeq(old, 1, t - 1)
        /\ keysOfNode(g.m, nr.children.a[2]) = SubSeq(old, t + 1, 2 * t - 1)
        /\ IsLeafType(l.type) = IsLeaf(root)
        /\ IsLeafType(rt.type) = IsLeaf(root)

\* C11 (root growth): Insert raises the height by one exactly when the root
\* holds 2t-1 keys at the call, and then the root before the descent is
\* internal with the old root's median as its one key and the two halves of
\* the old root, t-1 keys each, as its two children; otherwise the height
\* is unchanged.
RootGrowth ==
    [][\A x \in Items :
          (InsertCall(x) /\ ~failed') =>
              IF keyCount(root) = 2 * t - 1
              THEN /\ TreeHeight' = TreeHeight + 1
                   /\ GrownRoot(BTree_Insert_grow(Machine, root))
              ELSE TreeHeight' = TreeHeight]_vars

\* C11 witness: a tree of three levels whose root holds one key, as an
\* Insert into a tree with a full internal root leaves it.
RootGrowthWitness ==
    /\ ~failed
    /\ phase.mode = "free"
    /\ TreeHeight = 2
    /\ keyCount(root) = 1

\* C12 (Search is non-mutating): a Search call, found or not, leaves every
\* node's keys and children and the root reference unchanged.
SearchIsNonMutating ==
    [][\A x \in Items : SearchCall(x) => (heap' = heap /\ root' = root)]_vars

\* C12 witness: a tree of three levels on which Search finds one key in an
\* internal node, another in a leaf, and a third nowhere.
SearchIsNonMutatingWitness ==
    /\ ~failed
    /\ TreeHeight = 2
    /\ \E x, y, z \in Items :
          /\ baseInternalNode_search(Machine, root, x).found
          /\ ~find(heap[root].keys, y).found
          /\ BTree_Search(Machine, root, y).found
          /\ ~BTree_Search(Machine, root, z).found
          /\ ~BTree_Search(Machine, root, z).panic

\* C13 (construction): the tree NewBTree returns has a leaf root with zero
\* keys, and Search on it reports not found for every key.
Construction ==
    NewBTree =>
        /\ heap[root].type = "rootLeaf"
        /\ keyCount(root) = 0
        /\ \A x \in Items :
              /\ ~BTree_Search(Machine, root, x).found
              /\ ~BTree_Search(Machine, root, x).panic

\* C13 witness: the tree right after NewBTree, with the largest order.
ConstructionWitness == NewBTree /\ t = MaxOrder /\ Stored = 0

\* The run has inserted the first n keys of the ascending script, and has
\* called nothing but Insert and Search.
InsertedAsc(n) ==
    /\ ~failed
    /\ phase.mode = "fill"
    /\ phase.rest = SubSeq(Asc, n + 1, MaxBuild)

\* C14 (scenario, t = 2): with the keys 1..7 inserted in ascending order,
\* after the 4th Insert the root is internal with one key and two leaf
\* children; after the 7th, Search finds each of 1..7 and does not find 8.
ScenarioAscending ==
    /\ (t = 2 /\ InsertedAsc(4)) =>
          /\ ~IsLeaf(root)
          /\ keyCount(root) = 1
          /\ childCount(root) = 2
          /\ IsLeaf(heap[root].children.a[1])
          /\ IsLeaf(heap[root].children.a[2])
    /\ (t = 2 /\ InsertedAsc(7)) =>
          /\ \A k \in 1..7 : BTree_Search(Machine, root, Item(k, 0)).found
          /\ ~BTree_Search(Machine, root, Item(8, 0)).found
          /\ ~BTree_Search(Machine, root, Item(8, 0)).panic

\* C14 witness: the tree of order 2 after Insert of 1..7 in ascending order.
ScenarioAscendingWitness == t = 2 /\ InsertedAsc(7) /\ StoredKeys = 1..7

\* The run has inserted 1..ScenarioKeys in ascending order and then removed k.
RemovedAfterAsc(k) == phase.mode = "cut" /\ phase.rest = <<k>>

\* C15 (scenario, t = 3): after Insert of 16 keys in ascending order and
\* Remove of the 4th, the call has returned, the stored keys are the 16 minus
\* the 4th, the traversal is sorted, every node is within its occupancy
\* bounds and all leaves are at one depth.
ScenarioRemoveD ==
    (t = 3 /\ RemovedAfterAsc(4)) =>
        /\ ~failed
        /\ StoredKeys = (1..ScenarioKeys) \ {4}
        /\ Members = (1..ScenarioKeys) \ {4}
        /\ Stored = ScenarioKeys - 1
        /\ Sorted
        /\ \A n \in 1..Len(heap) :
              /\ keyCount(n) <= 2 * t - 1
              /\ n # root => keyCount(n) >= t - 1
              /\ ~IsLeaf(n) => childCount(n) = keyCount(n) + 1
        /\ Cardinality(LeafDepths(root)) = 1

\* C15 witness: the tree of order 3 after the 16 Inserts and Remove of the
\* 4th key.
ScenarioRemoveDWitness ==
    t = 3 /\ RemovedAfterAsc(4) /\ ~failed /\ ScenarioKeys = 16 /\ TreeHeight = 1

----------------------------------------------------------------------------
(* The calls one Remove makes, read from the record of calls *)

\* The tree is sorted, within its occupancy bounds and balanced.
WellFormed ==
    /\ ~failed
    /\ Sorted
    /\ Cardinality(LeafDepths(root)) = 1
    /\ \A n \in 1..Len(heap) :
          /\ keyCount(n) <= 2 * t - 1
          /\ n # root => keyCount(n) >= t - 1
          /\ ~IsLeaf(n) => childCount(n) = keyCount(n) + 1

\* Node n of heap H: is it a leaf, is it in the child role, its i-th child.
leafIn(H, n) == IsLeafType(H[n].type)

childRoleIn(H, n) == H[n].type \in {"childLeaf", "childInternal"}

childIn(H, n, i) == H[n].children.a[i + 1]

\* The in-order traversal of the subtree at n in heap H.
RECURSIVE keysUnder(_, _)
RECURSIVE keysUnderFrom(_, _, _)
keysUnderFrom(H, n, i) ==
    IF i >= H[n].keys.n /\ (leafIn(H, n) \/ i >= H[n].children.n) THEN <<>>
    ELSE (IF ~leafIn(H, n) /\ i < H[n].children.n
          THEN keysUnder(H, childIn(H, n, i)) ELSE <<>>)
         \o (IF i < H[n].keys.n THEN <<H[n].keys.a[i + 1]>> ELSE <<>>)
         \o keysUnderFrom(H, n, i + 1)

keysUnder(H, n) == IF n = Nil THEN <<>> ELSE keysUnderFrom(H, n, 0)

\* Call e is remove(k) on an internal node; at(e) is where find puts k in it.
onInternal(e) == e.op = "remove" /\ ~leafIn(e.heap, e.n)

foundAt(e) == find(e.heap[e.n].keys, e.k)

\* The child left of index i of the node of call e, and the child right of it.
leftOf(e) == childIn(e.heap, e.n, foundAt(e).i)

rightOf(e) == childIn(e.heap, e.n, foundAt(e).i + 1)

\* Call e finds its key in an internal node whose child left of the key holds
\* at least t keys.
predCase(e) ==
    /\ onInternal(e)
    /\ foundAt(e).found
    /\ e.heap[leftOf(e)].keys.n >= t

\* In heap F the slot of call e's key holds the last key of the traversal of
\* the left child's subtree as e found it, and the subtree has lost that key.
predEffect(e, F) ==
    LET before == keysUnder(e.heap, leftOf(e))
    IN  /\ F[e.n].keys.a[foundAt(e).i + 1] = before[Len(before)]
        /\ keysUnder(F, leftOf(e)) = SubSeq(before, 1, Len(before) - 1)

\* Every call of the record of M1, the machine after b.root.remove, that is a
\* predecessor case has the predecessor's effect.
predPromoted(M1) ==
    \A j \in 1..Len(M1.calls) :
        predCase(M1.calls[j]) => predEffect(M1.calls[j], M1.heap)

\* C16 (predecessor promotion): when Remove(k), called on a well-formed tree,
\* finds k in an internal node whose child left of k holds at least t keys,
\* k's slot gets the maximum key of that child's subtree, whatever its height,
\* and the subtree loses that key.
PredecessorPromotion ==
    [][\A x \in Items :
          (WellFormed /\ RemoveCall(x) /\ ~failed') =>
              predPromoted(remove(Machine, root, x))]_vars

\* Call e finds its key in an internal node whose child left of the key holds
\* t-1 keys and whose child right of the key holds at least t.
succCase(e) ==
    /\ onInternal(e)
    /\ foundAt(e).found
    /\ e.heap[leftOf(e)].keys.n = t - 1
    /\ e.heap[rightOf(e)].keys.n >= t

\* In heap F the slot of call e's key holds the first key of the traversal of
\* the right child's subtree as e found it, and the subtree has lost that key.
succEffect(e, F) ==
    LET before == keysUnder(e.heap, rightOf(e))
    IN  /\ F[e.n].keys.a[foundAt(e).i + 1] = before[1]
        /\ keysUnder(F, rightOf(e)) = Tail(before)

succPromoted(M1) ==
    \A j \in 1..Len(M1.calls) :
        succCase(M1.calls[j]) => succEffect(M1.calls[j], M1.heap)

\* C17 (successor promotion): when Remove(k), called on a well-formed tree,
\* finds k in an internal node whose child left of k holds t-1 keys and whose
\* child right of k holds at least t, k's slot gets the minimum key of the
\* right child's subtree, whatever its height, and the subtree loses that key.
SuccessorPromotion ==
    [][\A x \in Items :
          (WellFormed /\ RemoveCall(x) /\ ~failed') =>
              succPromoted(remove(Machine, root, x))]_vars

\* The keys and the children of node n of heap H, in order.
keysIn(H, n) == [p \in 1..H[n].keys.n |-> H[n].keys.a[p]]

childrenIn(H, n) ==
    IF leafIn(H, n) THEN <<>> ELSE [p \in 1..H[n].children.n |-> H[n].children.a[p]]

\* Sequence s without its element at index i, counted from 0.
without(s, i) == SubSeq(s, 1, i) \o SubSeq(s, i + 2, Len(s))

\* How many keys of sequence s compare equal to k.
occurrences(s, k) == Cardinality({p \in 1..Len(s) : Compare(s[p], k) = 0})

\* Call e finds its key in an internal node whose children left and right of
\* the key both hold t-1 keys.
mergeCase(e) ==
    /\ onInternal(e)
    /\ foundAt(e).found
    /\ e.heap[leftOf(e)].keys.n = t - 1
    /\ e.heap[rightOf(e)].keys.n = t - 1

\* Call e is followed by a merge and by call d, remove of e's key on e's left child, which
\* finds the left child holding its keys, e's key and the right child's keys
\* (and both nodes' children), and the parent without the key and without
\* the right child; in heap F the left child's subtree holds the key once
\* less than d found it.
mergeEffect(e, d, F) ==
    LET H == e.heap
        l == leftOf(e)
        r == rightOf(e)
        i == foundAt(e).i
    IN  /\ d.op = "remove" /\ d.n = l /\ d.k = e.k
        /\ keysIn(d.heap, l) = keysIn(H, l) \o <<e.k>> \o keysIn(H, r)
        /\ Len(keysIn(d.heap, l)) = 2 * t - 1
        /\ keysIn(d.heap, l)[t] = e.k
        /\ childrenIn(d.heap, l) = childrenIn(H, l) \o childrenIn(H, r)
        /\ keysIn(d.heap, e.n) = without(keysIn(H, e.n), i)
        /\ childrenIn(d.heap, e.n) = without(childrenIn(H, e.n), i + 1)
        /\ occurrences(keysUnder(F, l), e.k) =
               occurrences(keysUnder(d.heap, l), e.k) - 1

mergedOnFound(M1) ==
    \A j \in 1..Len(M1.calls) :
        mergeCase(M1.calls[j]) =>
            /\ j + 2 <= Len(M1.calls)
            /\ M1.calls[j + 1].op = "merge"
            /\ mergeEffect(M1.calls[j], M1.calls[j + 2], M1.heap)

\* C18 (merge on found): when Remove(k) finds k in an internal node and the
\* children left and right of k both hold t-1 keys, the right child is merged
\* into the left, which then holds 2t-1 keys with k at index t-1, the parent
\* loses k and the reference to the right child, and the call goes on into
\* the merged node and removes k from it.
MergeOnFound ==
    [][\A x \in Items :
          (RemoveCall(x) /\ ~failed') => mergedOnFound(remove(Machine, root, x))]_vars

\* Call e does not find its key in an internal node; the target child is the
\* child at the index find returns.
descendCase(e) == onInternal(e) /\ ~foundAt(e).found

\* Node c of heap H holds at least t keys.
aboveMinIn(H, c) == H[c].keys.n >= t

\* The calls that the claimed order of rebalancing makes after call e, up to
\* and with the next remove: op, receiver and node argument of each.
rebalancePlan(e) ==
    LET H     == e.heap
        i     == foundAt(e).i
        c     == childIn(H, e.n, i)
        hasL  == i > 0
        hasR  == i < H[e.n].keys.n
        l     == childIn(H, e.n, i - 1)
        r     == childIn(H, e.n, i + 1)
        go(x) == <<"remove", x, Nil>>
    IN  IF aboveMinIn(H, c) THEN <<go(c)>>
        ELSE IF hasL /\ aboveMinIn(H, l) THEN << <<"shuffleRight", c, l>>, go(c) >>
        ELSE IF hasR /\ aboveMinIn(H, r) THEN << <<"shuffleLeft", c, r>>, go(c) >>
        ELSE IF hasL THEN << <<"merge", l, c>>, go(l) >>
        ELSE << <<"merge", c, r>>, go(c) >>

\* The calls of record cs after the j-th follow the plan of the j-th; without
\* a rebalancing step the next call finds the heap as the j-th found it, and
\* the remove that ends the plan has the key of the j-th.
followsPlan(cs, j) ==
    LET plan == rebalancePlan(cs[j])
        n    == Len(plan)
    IN  /\ j + n <= Len(cs)
        /\ \A p \in 1..n :
              <<cs[j + p].op, cs[j + p].n, cs[j + p].m>> = plan[p]
        /\ n = 1 => cs[j + 1].heap = cs[j].heap
        /\ Compare(cs[j + n].k, cs[j].k) = 0

rebalancedInOrder(M1) ==
    \A j \in 1..Len(M1.calls) :
        descendCase(M1.calls[j]) => followsPlan(M1.calls, j)

\* C19 (rebalance priority on not-found): when Remove(k) does not find k in
\* an internal node, it makes no rebalancing call if the target child holds
\* at least t keys; otherwise it makes exactly one, the first possible of:
\* borrow from the left sibling, borrow from the right sibling, merge with the
\* left sibling, merge with the right sibling; then it calls remove(k) on the
\* node that holds the target child's keys.
RebalancePriority ==
    [][\A x \in Items :
          (RemoveCall(x) /\ ~failed') =>
              rebalancedInOrder(remove(Machine, root, x))]_vars

\* C19 witness: a well-formed tree on which the Remove calls that return
\* make, between them, each of the five choices (in a merge with the left
\* sibling the target child is the argument, in one with the right the
\* receiver).
RebalancePriorityWitness ==
    LET kind(e) ==
            IF Len(rebalancePlan(e)) = 1 THEN "none"
            ELSE IF rebalancePlan(e)[1][1] # "merge" THEN rebalancePlan(e)[1][1]
            ELSE IF rebalancePlan(e)[1][3] = leftOf(e) THEN "mergeLeft"
            ELSE "mergeRight"
        kinds(cs) == {kind(cs[j]) : j \in {p \in 1..Len(cs) : descendCase(cs[p])}}
    IN  /\ WellFormed
        /\ UNION {kinds(remove(Machine, root, x).calls) :
                    x \in {y \in Items : ~remove(Machine, root, y).panic}}
              = {"none", "shuffleRight", "shuffleLeft", "mergeLeft", "mergeRight"}

\* Call e is remove, deletePred or deleteSucc on a node in the child role.
takesFromChild(e) ==
    /\ e.op \in {"remove", "deletePred", "deleteSucc"}
    /\ childRoleIn(e.heap, e.n)

neverIntoMinimum(M1) ==
    \A j \in 1..Len(M1.calls) :
        takesFromChild(M1.calls[j]) => aboveMinIn(M1.calls[j].heap, M1.calls[j].n)

\* C20 (no descent into a minimum-size node): every remove, deletePred or
\* deleteSucc call a Remove makes on a node in the child role finds that node
\* holding at least t keys.
NoDescentIntoMinimum ==
    [][\A x \in Items :
          (RemoveCall(x) /\ ~failed') =>
              neverIntoMinimum(remove(Machine, root, x))]_vars

\* Every insertBelowMax call of record cs finds its node below 2t-1 keys.
\* After a split made by the insertBelowMax call before it (on the child at
\* the index i where find puts the key) the next call is insertBelowMax on
\* the child left of the median, now at index i of the parent, if the key is
\* less than the median, and on the child right of it if the key is greater.
descendsBelowMax(cs) ==
    /\ \A j \in 1..Len(cs) :
          cs[j].op = "insertBelowMax" => cs[j].heap[cs[j].n].keys.n < 2 * t - 1
    /\ \A j \in 2..Len(cs) :
          (cs[j].op = "split" /\ cs[j - 1].op = "insertBelowMax") =>
              /\ j < Len(cs)
              /\ cs[j + 1].op = "insertBelowMax"
              /\ LET p   == cs[j - 1].n
                     i   == find(cs[j - 1].heap[p].keys, cs[j - 1].k).i
                     H   == cs[j + 1].heap
                     med == H[p].keys.a[i + 1]
                 IN  \/ /\ Compare(cs[j + 1].k, med) < 0
                        /\ cs[j + 1].n = childIn(H, p, i)
                        /\ cs[j + 1].n = cs[j].n
                     \/ /\ Compare(cs[j + 1].k, med) > 0
                        /\ cs[j + 1].n = childIn(H, p, i + 1)
                        /\ cs[j + 1].n # cs[j].n

\* C21 (Insert never descends into a full node): every insertBelowMax call
\* of an Insert is made on a node holding fewer than 2t-1 keys, and after
\* the split of a full child the descent goes on into the half whose key
\* range contains the new key.
InsertDescent ==
    [][\A x \in Items :
          (WellFormed /\ InsertCall(x) /\ ~failed') =>
              descendsBelowMax(BTree_Insert(Machine, root, x).m.calls)]_vars

\* r is what split returns for node n of heap H, which holds 2t-1 keys: n
\* keeps the first t-1, the median is the t-th, and the sibling, a new node
\* of n's type, holds the last t-1; of an internal node's 2t children the
\* first t stay and the last t are the sibling's.
splitEffect(H, n, r) ==
    LET k  == keysIn(H, n)
        ch == childrenIn(H, n)
        F  == r.m.heap
        sb == r.sibling
    IN  /\ ~r.m.panic
        /\ Len(k) = 2 * t - 1
        /\ sb \notin 1..Len(H) /\ sb \in 1..Len(F)
        /\ F[sb].type = H[n].type
        /\ keysIn(F, n) = SubSeq(k, 1, t - 1)
        /\ r.medianKey = k[t]
        /\ keysIn(F, sb) = SubSeq(k, t + 1, 2 * t - 1)
        /\ ~leafIn(H, n) =>
              /\ Len(ch) = 2 * t
              /\ childrenIn(F, n) = SubSeq(ch, 1, t)
              /\ childrenIn(F, sb) = SubSeq(ch, t + 1, 2 * t)
        /\ \A q \in 1..Len(H) : q # n => F[q] = H[q]

\* Every split call of record cs has the effect of a split.
splitsInHalves(cs) ==
    \A j \in 1..Len(cs) :
        cs[j].op = "split" =>
            splitEffect(cs[j].heap, cs[j].n,
                        split([heap |-> cs[j].heap, panic |-> FALSE, calls |-> <<>>],
                              cs[j].n))

\* C22 (split): every split an Insert makes, of a node with the keys
\* k[0..2t-2], leaves the node with k[0..t-2], returns k[t-1] as the median
\* and a new sibling with k[t..2t-2]; of an internal node the children
\* [0,t) stay and the children [t,2t) move to the sibling, in order.
SplitEffect ==
    [][\A x \in Items :
          (InsertCall(x) /\ ~failed') =>
              splitsInHalves(BTree_Insert(Machine, root, x).m.calls)]_vars

\* C22 witness: a tree on which the next Insert of the script splits a full
\* internal node with its 2t children.
SplitEffectWitness ==
    /\ ~failed
    /\ WellFormed
    /\ phase.mode = "fill"
    /\ phase.rest # <<>>
    /\ \E x \in {Item(Head(phase.rest), 0)} :
          LET cs == BTree_Insert(Machine, root, x).m.calls
          IN  /\ ~BTree_Insert(Machine, root, x).m.panic
              /\ \E i \in 1..Len(cs) :
                    /\ cs[i].op = "split"
                    /\ ~leafIn(cs[i].heap, cs[i].n)
                    /\ cs[i].heap[cs[i].n].children.n = 2 * t

\* Heap A against heap H after a merge of the nodes l and r, the children
\* at the indices q and q+1 of node p: l holds l's keys, p's key at q and r's
\* keys (and l's children, then r's), and p is without its key at q and
\* without its child at q+1.
mergeEffectAt(H, A, p, q, l, r) ==
    /\ childIn(H, p, q) = l
    /\ childIn(H, p, q + 1) = r
    /\ keysIn(A, l) = keysIn(H, l) \o <<keysIn(H, p)[q + 1]>> \o keysIn(H, r)
    /\ childrenIn(A, l) = childrenIn(H, l) \o childrenIn(H, r)
    /\ keysIn(A, p) = without(keysIn(H, p), q)
    /\ childrenIn(A, p) = without(childrenIn(H, p), q + 1)

\* Every merge call of record cs, made by the call before it on a node p and
\* followed by the call that goes on into the merged node, has the effect of
\* a merge on the heap the caller found.
mergesWhole(cs) ==
    \A j \in 2..Len(cs) :
        cs[j].op = "merge" =>
            /\ j < Len(cs)
            /\ \E q \in 0..(cs[j - 1].heap[cs[j - 1].n].keys.n - 1) :
                  mergeEffectAt(cs[j - 1].heap, cs[j + 1].heap, cs[j - 1].n, q,
                                cs[j].n, cs[j].m)

\* C23 (merge effect): every merge made during a Remove of a well-formed
\* tree, by remove, deletePred or deleteSucc, leaves the surviving node with
\* the left node's keys, the separator and the right node's keys (and the
\* children of both, in order), and the parent, as stored in the tree,
\* without the separator and without the reference to the absorbed node.
MergeEffect ==
    [][\A x \in Items :
          (WellFormed /\ RemoveCall(x) /\ ~failed') =>
              mergesWhole(remove(Machine, root, x).calls)]_vars

\* Heap A against heap H after a borrow between the children at the indices
\* q and q+1 of node p.  toRight: the right child is the recipient and gets
\* p's key at q in front, the left child's last key takes that slot of p,
\* and the left child's last child goes in front of the recipient's; the
\* other direction is the mirror image.  The traversal below p is the same.
borrowEffectAt(H, A, p, q, toRight) ==
    LET l  == childIn(H, p, q)
        r  == childIn(H, p, q + 1)
        kl == keysIn(H, l)
        kr == keysIn(H, r)
        cl == childrenIn(H, l)
        cr == childrenIn(H, r)
        up == IF toRight THEN kl[Len(kl)] ELSE kr[1]
    IN  /\ keysIn(A, p) = [keysIn(H, p) EXCEPT ![q + 1] = up]
        /\ childrenIn(A, p) = childrenIn(H, p)
        /\ IF toRight
           THEN /\ keysIn(A, r) = <<keysIn(H, p)[q + 1]>> \o kr
                /\ keysIn(A, l) = SubSeq(kl, 1, Len(kl) - 1)
                /\ ~leafIn(H, l) =>
                      /\ childrenIn(A, r) = <<cl[Len(cl)]>> \o cr
                      /\ childrenIn(A, l) = SubSeq(cl, 1, Len(cl) - 1)
           ELSE /\ keysIn(A, l) = kl \o <<keysIn(H, p)[q + 1]>>
                /\ keysIn(A, r) = Tail(kr)
                /\ ~leafIn(H, l) =>
                      /\ childrenIn(A, l) = cl \o <<cr[1]>>
                      /\ childrenIn(A, r) = Tail(cr)
        /\ keysUnder(A, p) = keysUnder(H, p)

\* Every shuffleRight and shuffleLeft call of record cs, made by the call
\* before it on a node p and followed by the call that goes on into the
\* recipient, has the effect of a borrow on the heap the caller found.
borrowsThroughParent(cs) ==
    \A j \in 2..Len(cs) :
        cs[j].op \in {"shuffleRight", "shuffleLeft"} =>
            /\ j < Len(cs)
            /\ \E q \in 0..(cs[j - 1].heap[cs[j - 1].n].keys.n - 1) :
                  /\ IF cs[j].op = "shuffleRight"
                     THEN /\ childIn(cs[j - 1].heap, cs[j - 1].n, q) = cs[j].m
                          /\ childIn(cs[j - 1].heap, cs[j - 1].n, q + 1) = cs[j].n
                     ELSE /\ childIn(cs[j - 1].heap, cs[j - 1].n, q) = cs[j].n
                          /\ childIn(cs[j - 1].heap, cs[j - 1].n, q + 1) = cs[j].m
                  /\ borrowEffectAt(cs[j - 1].heap, cs[j + 1].heap, cs[j - 1].n, q,
                                    cs[j].op = "shuffleRight")

\* C24 (borrow effect): every borrow made during a Remove of a well-formed
\* tree, by remove, deletePred or deleteSucc, moves the parent key between
\* the two siblings down into the recipient and the donor's adjacent extreme
\* key up into that slot (and the donor's adjacent extreme child over to the
\* recipient), and leaves the in-order key sequence unchanged.
BorrowEffect ==
    [][\A x \in Items :
          (WellFormed /\ RemoveCall(x) /\ ~failed') =>
              borrowsThroughParent(remove(Machine, root, x).calls)]_vars

\* The positions of child sequences of the tree that refer to node n.
referrers(n) ==
    {<<p, i>> \in (1..Len(heap)) \X (1..(2 * t)) :
        ~IsLeaf(p) /\ i <= childCount(p) /\ heap[p].children.a[i] = n}

\* C25 (strict tree ownership): between calls every node of the tree but the
\* root is referred to by exactly one position of one parent's children,
\* and the root by none.
StrictOwnership ==
    ~failed =>
        \A n \in 1..Len(heap) :
            Cardinality(referrers(n)) = IF n = root THEN 0 ELSE 1

\* The number of levels of the subtree at node n of heap H.
RECURSIVE levelsIn(_, _)
levelsIn(H, n) ==
    IF n = Nil THEN 0
    ELSE IF leafIn(H, n) \/ H[n].children.n = 0 THEN 1
    ELSE LET below == {levelsIn(H, c) : c \in Range(childrenIn(H, n))}
         IN  1 + CHOOSE d \in below : \A e \in below : e <= d

\* The calls of record cs that enter a node on the way down (their op is in
\* ops) start at node r, are each made on a child of the node of the one
\* before, and are no more than the tree at r in heap H has levels.
oneNodePerLevel(cs, ops, H, r) ==
    LET down(e) == e.op \in ops
        ds      == SelectSeq(cs, down)
    IN  /\ Len(ds) >= 1
        /\ ds[1].n = r
        /\ Len(ds) <= levelsIn(H, r)
        /\ \A j \in 2..Len(ds) :
              /\ ~leafIn(ds[j].heap, ds[j - 1].n)
              /\ ds[j].n \in Range(childrenIn(ds[j].heap, ds[j - 1].n))

\* C26 (termination): on every reachable tree every Search, Insert and
\* Remove call returns or panics after entering at most one node per level
\* of the tree: Search and Remove of the tree they find, Insert of the tree
\* it leaves.
Termination ==
    ~failed =>
        \A x \in Items :
            /\ oneNodePerLevel(BTree_Search(Machine, root, x).m.calls,
                               {"search"}, heap, root)
            /\ LET r == BTree_Insert(Machine, root, x)
               IN  ~r.m.panic =>
                       oneNodePerLevel(r.m.calls, {"insertBelowMax"}, r.m.heap, r.root)
            /\ oneNodePerLevel(remove(Machine, root, x).calls,
                               {"remove", "deletePred", "deleteSucc"}, heap, root)

\* C26 witness: a tree of three levels that a Remove has worked on, on which
\* a Search and a Remove enter a node on each of the three levels, the
\* Remove ending in deleteSucc calls.
TerminationWitness ==
    /\ ~failed
    /\ phase.mode = "drain"
    /\ levelsIn(heap, root) = 3
    /\ \E x, y \in Items :
          /\ Len(BTree_Search(Machine, root, x).m.calls) = 3
          /\ ~remove(Machine, root, y).panic
          /\ Len(SelectSeq(remove(Machine, root, y).calls,
                           LAMBDA e : e.op = "deleteSucc")) = 2

\* The answers isAboveMin gives on the nodes of heap H are those of the
\* bounds lowChild for child-role nodes and lowRoot for root-role nodes: true
\* exactly when the key count exceeds the bound of the node's role.
aboveMinByRole(M1, lowChild, lowRoot) ==
    \A n \in 1..Len(M1.heap) :
        isAboveMin(M1, n) =
            (M1.heap[n].keys.n > IF childRoleIn(M1.heap, n) THEN lowChild ELSE lowRoot)

\* C27 as stated (isAboveMin): isAboveMin is true exactly when the key count
\* exceeds t-1 for a child-role node and true for every root-role node
\* whatever its key count, on every tree between calls and on the tree
\* that the root's remove leaves before BTree.Remove consults isAboveMin.
IsAboveMinRootAlways ==
    ~failed =>
        /\ aboveMinByRole(Machine, t - 1, -1)
        /\ \A x \in Items :
              ~remove(Machine, root, x).panic =>
                  aboveMinByRole(remove(Machine, root, x), t - 1, -1)

\* C27 amended (isAboveMin): isAboveMin is true exactly when the key count
\* exceeds t-1 for a child-role node and exactly when the key count exceeds
\* 0 for a root-role node, on every tree between calls and on the tree that
\* the root's remove leaves before BTree.Remove consults isAboveMin.
IsAboveMinByRole ==
    ~failed =>
        /\ aboveMinByRole(Machine, t - 1, 0)
        /\ \A x \in Items :
              ~remove(Machine, root, x).panic =>
                  aboveMinByRole(remove(Machine, root, x), t - 1, 0)

\* C27 witness: a tree with a child-role node of exactly t-1 keys and one of
\* more, on which a Remove leaves the internal root without keys, so that
\* isAboveMin is asked of a root-role node of zero keys.
IsAboveMinWitness ==
    /\ ~failed
    /\ \E n, m \in 1..Len(heap) :
          /\ childRoleIn(heap, n) /\ keyCount(n) = t - 1
          /\ childRoleIn(heap, m) /\ keyCount(m) > t - 1
    /\ \E x \in Items :
          /\ RootEmptied(remove(Machine, root, x))
          /\ ~isAboveMin(remove(Machine, root, x), root)

====
